---- MODULE Spec2Model ----
(***************************************************************************)
(* A model of the circuit breakers of node-sentinels: the breaker state    *)
(* (CircuitBreakerBase), the execution wrapper (ExecutionCircuitBreaker-   *)
(* Base) with its two strategies (ExecutionCircuitBreaker and              *)
(* ThresholdExecutionCircuitBreaker) and the decoupled policy              *)
(* (CircuitBreakerPolicyBase / DefaultCircuitBreakerPolicy); the backoff   *)
(* calculator (ExponentialBackoff) and the health-check sentinels          *)
(* (ServiceSentinel / TogglableServiceSentinel).                           *)
(*                                                                         *)
(* Time is the millisecond clock read by `now` / Date.now(), counted in    *)
(* ticks from 1.  JavaScript values that may be undefined or NaN are       *)
(* records [k, v]: k is "number", "undefined" or "NaN".                    *)
(***************************************************************************)
EXTENDS Integers, Sequences, FiniteSets, TLC

\* ---------------------------------------------------------------- bounds
MaxTime == 3
MaxInFlight == 2
MaxErrorCount == 3
MaxConsecutiveFailures == 3
MaxPolicyTime == 5
MaxAttempt == 12
MaxTimers == 4
MaxCalls == 2

\* What the external getters return: retryInterval, _errorCountGetter()
\* and _errorIntervalGetter().
RetryIntervals == {0, 1, 2}
ErrorThresholds == {0, 1, 2}
ErrorIntervals == {1, 2}
\* What the policy's config returns: failuresAllowedBeforeTrip, retryInterval.
FailuresAllowed == {0, 1, 2}
PolicyRetryIntervals == {0, 1, 2}

\* new Date('0001-01-01T00:00:00Z'): an instant before every clock reading.
MinDate == 0

\* ------------------------------------------------------ JavaScript values
Undefined == [k |-> "undefined", v |-> 0]
NaN == [k |-> "NaN", v |-> 0]
Num(n) == [k |-> "number", v |-> n]

\* x++ on a field: undefined and NaN become NaN.
JsInc(x) == IF x.k = "number" THEN Num(x.v + 1) ELSE NaN
\* x <= n and x > n with a numeric right operand: false when x is NaN.
JsLe(x, n) == x.k = "number" /\ x.v <= n
JsGt(x, n) == x.k = "number" /\ x.v > n
\* !v for the values a boolean field takes ("undefined", "false", "true").
Truthy(b) == b = "true"

\* The values an action throws; "none" is a normal completion.
ThrownValues == {"TestError", "null", "undefined"}
Outcomes == {"none"} \cup ThrownValues

Kinds == {"CircuitBreaker", "ExecutionCircuitBreaker", "ThresholdExecutionCircuitBreaker"}

VARIABLES
  now,                    \* the clock
  kind,                   \* the concrete class of the breaker under test
  errorCountGetter,       \* what _errorCountGetter() returns
  errorIntervalGetter,    \* what _errorIntervalGetter() returns
  cb,                     \* CircuitBreakerBase: [isTripped, trippedAt]
  nextRetry,              \* ExecutionCircuitBreakerBase._nextRetry
  shouldRetry,            \* ExecutionCircuitBreakerBase._shouldRetry
  errorCount,             \* ThresholdExecutionCircuitBreaker._errorCount
  errorCountIntervalEnd,  \* ThresholdExecutionCircuitBreaker._errorCountIntervalEnd
  inflight,               \* executeAsync calls awaiting their action
  last,                   \* the last operation: its inputs and its result
  hist,                   \* history of the calls, for the claims over runs
  failuresAllowedBeforeTrip, \* config.failuresAllowedBeforeTrip
  retryInterval,          \* config.retryInterval
  circuitBreaker,         \* DefaultCircuitBreakerPolicy._circuitBreaker
  policyShouldRetry,      \* DefaultCircuitBreakerPolicy._shouldRetry
  consecutiveFailures,    \* DefaultCircuitBreakerPolicy._consecutiveFailures
  policyNextRetry,        \* DefaultCircuitBreakerPolicy._nextRetry
  plast,                  \* the last operation on the policy
  phist,                  \* history of the notifications
  backoff,                \* the last calculateBackoff call: arguments and result
  sentinel,               \* ServiceSentinel: its class and fields
  intervals,              \* the handles of the interval timers the runtime runs
  timersCreated,          \* how many setInterval calls were made
  slast,                  \* the last operation on the sentinel
  calls,                  \* executeAsync calls, statement by statement
  running                 \* the call whose synchronous block runs (0: none)

wvars == <<kind, errorCountGetter, errorIntervalGetter, cb, nextRetry, shouldRetry,
           errorCount, errorCountIntervalEnd, inflight, last, hist>>

bvars == <<backoff>>

svars == <<sentinel, intervals, timersCreated, slast>>

avars == <<calls, running>>

pvars == <<failuresAllowedBeforeTrip, retryInterval, circuitBreaker, policyShouldRetry,
           consecutiveFailures, policyNextRetry, plast, phist>>

\* --------------------------------------------------- CircuitBreakerBase
NewBreaker == [isTripped |-> FALSE, trippedAt |-> Undefined]

\* reset() without its guard.
BaseResetUnguarded(b) ==
  [state |-> [isTripped |-> FALSE, trippedAt |-> Undefined], ret |-> TRUE]

\* reset() that leaves trippedAt behind.
BaseResetKeepsTrippedAt(b) ==
  IF ~b.isTripped
    THEN [state |-> b, ret |-> FALSE]
    ELSE [state |-> [isTripped |-> FALSE, trippedAt |-> b.trippedAt], ret |-> TRUE]

\* reset(): [state, ret]
BaseReset(b) ==
  IF ~b.isTripped
    THEN [state |-> b, ret |-> FALSE]
    ELSE [state |-> [isTripped |-> FALSE, trippedAt |-> Undefined], ret |-> TRUE]

\* trip() that leaves the breaker as it found it.
BaseTripLeavesClosed(b, t) == [state |-> b, ret |-> FALSE]

\* trip() that stamps trippedAt again on a tripped breaker.
BaseTripRestamps(b, t) ==
  [state |-> [isTripped |-> TRUE, trippedAt |-> Num(t)], ret |-> ~b.isTripped]

\* trip() at clock t: [state, ret]
BaseTrip(b, t) ==
  IF b.isTripped
    THEN [state |-> b, ret |-> FALSE]
    ELSE [state |-> [isTripped |-> TRUE, trippedAt |-> Num(t)], ret |-> TRUE]

\* getTripError() at clock t: the CircuitBreakerError and the elapsed
\* milliseconds its message reports (as seconds, elapsed / 1000).
GetTripError(b, t) ==
  [type |-> "CircuitBreakerError",
   elapsed |-> t - (IF b.trippedAt.k = "number" THEN b.trippedAt.v ELSE t)]

\* test() at clock t: "none" or the error thrown.
BaseTest(b, t) == IF b.isTripped THEN GetTripError(b, t).type ELSE "none"

\* ------------------------------------------- ExecutionCircuitBreakerBase
IsExecutionBreaker == kind # "CircuitBreaker"

\* _isTimeForRetry that never finds the time come.
IsTimeForRetryNever(t, next) == FALSE

\* _isTimeForRetry with the comparison turned round.
IsTimeForRetryReversed(t, next) == t <= next

\* _isTimeForRetry at clock t
IsTimeForRetry(t, next) == t >= next

\* _attemptToProceed that consults the clock and not _shouldRetry.
AttemptToProceedByClock(b, t, next, retry) ==
  LET e == IF b.isTripped THEN "CircuitBreakerError" ELSE "none" IN
  IF e = "none" THEN "none"
  ELSE IF ~(t >= next) THEN e
  ELSE "none"

\* _attemptToProceed without the half-open state: test() alone.
AttemptToProceedNeverRetries(b, t, next, retry) ==
  IF b.isTripped THEN "CircuitBreakerError" ELSE "none"

\* _attemptToProceed that re-throws only when both conditions fail.
AttemptToProceedBothFail(b, t, next, retry) ==
  LET e == IF b.isTripped THEN "CircuitBreakerError" ELSE "none" IN
  IF e = "none" THEN "none"
  ELSE IF ~(t >= next) /\ ~Truthy(retry) THEN e
  ELSE "none"

\* _attemptToProceed at clock t: "none" or the error re-thrown.
AttemptToProceed(b, t, next, retry) ==
  LET e == BaseTest(b, t) IN
  IF e = "none" THEN "none"
  ELSE IF ~IsTimeForRetry(t, next) \/ ~Truthy(retry) THEN e
  ELSE "none"

\* shouldTrip that ignores the failure detector.
ImmediateShouldTripAlways(error, detects, t, count, intervalEnd) ==
  [threw |-> FALSE, consulted |-> TRUE, result |-> TRUE,
   errorCount |-> count, errorCountIntervalEnd |-> intervalEnd]

\* ExecutionCircuitBreaker.shouldTrip(error) with detects = _failureDetector(error)
ImmediateShouldTrip(error, detects, t, count, intervalEnd) ==
  [threw |-> FALSE, consulted |-> TRUE, result |-> detects,
   errorCount |-> count, errorCountIntervalEnd |-> intervalEnd]

\* _resetErrorCount without the write to _errorCountIntervalEnd.
ResetErrorCountKeepsWindow(t) ==
  [errorCount |-> Num(0), errorCountIntervalEnd |-> errorCountIntervalEnd]

\* ThresholdExecutionCircuitBreaker._resetErrorCount at clock t
ResetErrorCount(t) == [errorCount |-> Num(0), errorCountIntervalEnd |-> t + errorIntervalGetter]

\* shouldTrip that trips when the count reaches the threshold (>= for >).
ThresholdShouldTripAtThreshold(error, detects, t, count, intervalEnd) ==
  IF error \in {"null", "undefined"}
    THEN [threw |-> TRUE, consulted |-> FALSE, result |-> FALSE,
          errorCount |-> count, errorCountIntervalEnd |-> intervalEnd]
  ELSE IF detects
    THEN LET w == IF t > intervalEnd
                    THEN [errorCount |-> Num(0),
                          errorCountIntervalEnd |-> t + errorIntervalGetter]
                  ELSE [errorCount |-> count, errorCountIntervalEnd |-> intervalEnd]
             c == JsInc(w.errorCount)
         IN [threw |-> FALSE, consulted |-> TRUE,
             result |-> c.k = "number" /\ c.v >= errorCountGetter,
             errorCount |-> c, errorCountIntervalEnd |-> w.errorCountIntervalEnd]
  ELSE [threw |-> FALSE, consulted |-> TRUE, result |-> FALSE,
        errorCount |-> count, errorCountIntervalEnd |-> intervalEnd]

\* shouldTrip that renews an expired window before it asks the detector.
ThresholdShouldTripSlidesFirst(error, detects, t, count, intervalEnd) ==
  IF error \in {"null", "undefined"}
    THEN [threw |-> TRUE, consulted |-> FALSE, result |-> FALSE,
          errorCount |-> count, errorCountIntervalEnd |-> intervalEnd]
  ELSE LET w == IF t > intervalEnd THEN ResetErrorCount(t)
                ELSE [errorCount |-> count, errorCountIntervalEnd |-> intervalEnd]
           c == JsInc(w.errorCount)
       IN IF detects
            THEN [threw |-> FALSE, consulted |-> TRUE,
                  result |-> JsGt(c, errorCountGetter),
                  errorCount |-> c, errorCountIntervalEnd |-> w.errorCountIntervalEnd]
            ELSE [threw |-> FALSE, consulted |-> TRUE, result |-> FALSE,
                  errorCount |-> w.errorCount,
                  errorCountIntervalEnd |-> w.errorCountIntervalEnd]

\* shouldTrip without the check of its argument.
ThresholdShouldTripUnchecked(error, detects, t, count, intervalEnd) ==
  IF detects
    THEN LET w == IF t > intervalEnd THEN ResetErrorCount(t)
                  ELSE [errorCount |-> count, errorCountIntervalEnd |-> intervalEnd]
             c == JsInc(w.errorCount)
         IN [threw |-> FALSE, consulted |-> TRUE, result |-> JsGt(c, errorCountGetter),
             errorCount |-> c, errorCountIntervalEnd |-> w.errorCountIntervalEnd]
  ELSE [threw |-> FALSE, consulted |-> TRUE, result |-> FALSE,
        errorCount |-> count, errorCountIntervalEnd |-> intervalEnd]

\* ThresholdExecutionCircuitBreaker.shouldTrip(error)
ThresholdShouldTrip(error, detects, t, count, intervalEnd) ==
  IF error \in {"null", "undefined"}
    THEN [threw |-> TRUE, consulted |-> FALSE, result |-> FALSE,
          errorCount |-> count, errorCountIntervalEnd |-> intervalEnd]
  ELSE IF detects
    THEN LET w == IF t > intervalEnd THEN ResetErrorCount(t)
                  ELSE [errorCount |-> count, errorCountIntervalEnd |-> intervalEnd]
             c == JsInc(w.errorCount)
         IN [threw |-> FALSE, consulted |-> TRUE, result |-> JsGt(c, errorCountGetter),
             errorCount |-> c, errorCountIntervalEnd |-> w.errorCountIntervalEnd]
  ELSE [threw |-> FALSE, consulted |-> TRUE, result |-> FALSE,
        errorCount |-> count, errorCountIntervalEnd |-> intervalEnd]

\* shouldTrip, dispatched on the concrete class
ShouldTrip(error, detects, t, count, intervalEnd) ==
  IF kind = "ThresholdExecutionCircuitBreaker"
    THEN ThresholdShouldTrip(error, detects, t, count, intervalEnd)
    ELSE ImmediateShouldTrip(error, detects, t, count, intervalEnd)

\* reset() that leaves a breaker alone whose retry time is set.
WrapperResetUnlessArmed(b, next) ==
  IF b.isTripped /\ next > MinDate
    THEN [state |-> b, ret |-> FALSE, nextRetry |-> next]
    ELSE [state |-> BaseReset(b).state, ret |-> BaseReset(b).ret, nextRetry |-> MinDate]

\* reset() of the wrapper without the write to _nextRetry.
WrapperResetKeepsNextRetry(b, next) ==
  [state |-> BaseReset(b).state, ret |-> BaseReset(b).ret, nextRetry |-> next]

\* ExecutionCircuitBreakerBase.reset(): _nextRetry back to year 1, then super.reset()
WrapperReset(b, next) ==
  [state |-> BaseReset(b).state, ret |-> BaseReset(b).ret, nextRetry |-> MinDate]

\* reset() that runs the base class's reset() for every class.
ResetAsPlainBreaker(b, next) ==
  [state |-> BaseReset(b).state, ret |-> BaseReset(b).ret, nextRetry |-> next]

\* reset(), dispatched on the concrete class
Reset(b, next) ==
  IF IsExecutionBreaker THEN WrapperReset(b, next)
  ELSE [state |-> BaseReset(b).state, ret |-> BaseReset(b).ret, nextRetry |-> next]

\* execute whose normal completion also clears the error count and window.
AfterActionClearsCount(thrown, detects, interval, t) ==
  IF thrown = "none"
    THEN LET r == Reset(cb, nextRetry) IN
         [cb |-> r.state, nextRetry |-> r.nextRetry, shouldRetry |-> "true",
          errorCount |-> Num(0), errorCountIntervalEnd |-> MinDate,
          raised |-> "none", shouldTrip |-> "n/a", consulted |-> FALSE]
    ELSE LET s == ShouldTrip(thrown, detects, t, errorCount, errorCountIntervalEnd) IN
         IF s.threw
           THEN [cb |-> cb, nextRetry |-> nextRetry, shouldRetry |-> "true",
                 errorCount |-> s.errorCount,
                 errorCountIntervalEnd |-> s.errorCountIntervalEnd,
                 raised |-> "ArgumentError", shouldTrip |-> "threw",
                 consulted |-> s.consulted]
         ELSE IF s.result
           THEN [cb |-> BaseTrip(cb, t).state, nextRetry |-> t + interval,
                 shouldRetry |-> "true", errorCount |-> s.errorCount,
                 errorCountIntervalEnd |-> s.errorCountIntervalEnd,
                 raised |-> thrown, shouldTrip |-> "true", consulted |-> s.consulted]
         ELSE [cb |-> cb, nextRetry |-> nextRetry, shouldRetry |-> "true",
               errorCount |-> s.errorCount,
               errorCountIntervalEnd |-> s.errorCountIntervalEnd,
               raised |-> thrown, shouldTrip |-> "false", consulted |-> s.consulted]

\* What follows the action in execute / executeAsync, at clock t: the catch
\* block, the finally block and the reset() of a normal completion.
\* thrown is the action's outcome, detects the failure detector's answer for
\* it and interval what retryInterval returns.
AfterAction(thrown, detects, interval, t) ==
  IF thrown = "none"
    THEN LET r == Reset(cb, nextRetry) IN
         [cb |-> r.state, nextRetry |-> r.nextRetry, shouldRetry |-> "true",
          errorCount |-> errorCount, errorCountIntervalEnd |-> errorCountIntervalEnd,
          raised |-> "none", shouldTrip |-> "n/a", consulted |-> FALSE]
    ELSE LET s == ShouldTrip(thrown, detects, t, errorCount, errorCountIntervalEnd) IN
         IF s.threw
           THEN [cb |-> cb, nextRetry |-> nextRetry, shouldRetry |-> "true",
                 errorCount |-> s.errorCount,
                 errorCountIntervalEnd |-> s.errorCountIntervalEnd,
                 raised |-> "ArgumentError", shouldTrip |-> "threw",
                 consulted |-> s.consulted]
         ELSE IF s.result
           THEN [cb |-> BaseTrip(cb, t).state, nextRetry |-> t + interval,
                 shouldRetry |-> "true", errorCount |-> s.errorCount,
                 errorCountIntervalEnd |-> s.errorCountIntervalEnd,
                 raised |-> thrown, shouldTrip |-> "true", consulted |-> s.consulted]
         ELSE [cb |-> cb, nextRetry |-> nextRetry, shouldRetry |-> "true",
               errorCount |-> s.errorCount,
               errorCountIntervalEnd |-> s.errorCountIntervalEnd,
               raised |-> thrown, shouldTrip |-> "false", consulted |-> s.consulted]

\* executeAsync whose normal completion skips the reset().
AfterAwaitedActionNoReset(thrown, detects, interval, t) ==
  IF thrown = "none"
    THEN [cb |-> cb, nextRetry |-> nextRetry, shouldRetry |-> "true",
          errorCount |-> errorCount, errorCountIntervalEnd |-> errorCountIntervalEnd,
          raised |-> "none", shouldTrip |-> "n/a", consulted |-> FALSE]
    ELSE AfterAction(thrown, detects, interval, t)

\* executeAsync that sets _shouldRetry on a normal completion only.
AfterAwaitedActionFlagOnSuccess(thrown, detects, interval, t) ==
  [AfterAction(thrown, detects, interval, t) EXCEPT
     !.shouldRetry = IF thrown = "none" THEN "true" ELSE shouldRetry]

\* executeAsync whose catch block trips without the write to _nextRetry.
AfterAwaitedActionKeepsNextRetry(thrown, detects, interval, t) ==
  [AfterAction(thrown, detects, interval, t) EXCEPT
     !.nextRetry = IF thrown = "none" THEN @ ELSE nextRetry]

\* executeAsync that resets the wrapper when shouldTrip returned false.
AfterAwaitedActionResetsOnIgnoredFailure(thrown, detects, interval, t) ==
  LET a == AfterAction(thrown, detects, interval, t) IN
  IF a.shouldTrip = "false"
    THEN [a EXCEPT !.cb = NewBreaker, !.nextRetry = MinDate]
    ELSE a

\* executeAsync from the point where the awaited action settled at clock t:
\* the catch block (shouldTrip, _nextRetry, trip(), rethrow), the finally
\* block and, when nothing was thrown, the reset().
AfterAwaitedAction(thrown, detects, interval, t) ==
  LET caught == thrown # "none"
      s == ShouldTrip(thrown, detects, t, errorCount, errorCountIntervalEnd)
      trips == caught /\ ~s.threw /\ s.result
      afterCatch ==
        [cb |-> IF trips THEN BaseTrip(cb, t).state ELSE cb,
         nextRetry |-> IF trips THEN t + interval ELSE nextRetry,
         raised |-> IF ~caught THEN "none"
                    ELSE IF s.threw THEN "ArgumentError" ELSE thrown]
      r == WrapperReset(afterCatch.cb, afterCatch.nextRetry)
  IN [cb |-> IF caught THEN afterCatch.cb ELSE r.state,
      nextRetry |-> IF caught THEN afterCatch.nextRetry ELSE r.nextRetry,
      shouldRetry |-> "true",
      errorCount |-> IF caught THEN s.errorCount ELSE errorCount,
      errorCountIntervalEnd |-> IF caught THEN s.errorCountIntervalEnd
                                ELSE errorCountIntervalEnd,
      raised |-> afterCatch.raised,
      shouldTrip |-> IF ~caught THEN "n/a"
                     ELSE IF s.threw THEN "threw"
                     ELSE IF s.result THEN "true" ELSE "false",
      consulted |-> caught /\ s.consulted]

\* --------------------------------------------------------------- records
\* What the last step did: the operation, what the action threw, what the
\* call raised or returned, and the answers of the callbacks it consulted;
\* probe: the call passed the gate of a tripped breaker.
NoOp ==
  [op |-> "none", admitted |-> FALSE, probe |-> FALSE, thrown |-> "none",
   raised |-> "none", ret |-> "void", detects |-> FALSE, shouldTrip |-> "n/a",
   interval |-> 0]

InFlightTotal(f) == f.closed + f.probe

\* The failure detector is consulted for a thrown value unless shouldTrip
\* fails first; retryInterval is read only when shouldTrip returned true.
DetectorAnswers(thrown) ==
  IF thrown = "none" \/ ShouldTrip(thrown, FALSE, now, errorCount, errorCountIntervalEnd).threw
    THEN {FALSE} ELSE BOOLEAN

IntervalAnswers(thrown, detects, t) ==
  IF AfterAction(thrown, detects, 0, t).shouldTrip = "true"
    THEN RetryIntervals ELSE {0}

\* The error counter stays within the bound of the model.
CountRoom(thrown, detects, t) ==
  JsLe(AfterAction(thrown, detects, 0, t).errorCount, MaxErrorCount)
    \/ errorCount.k # "number"

\* history: armedUntil is t + R after a failure that tripped with no other
\* call in flight (MinDate when none, or after reset()); qualifying counts the
\* failures the detector accepted since construction while every one of them
\* but the first fell inside the window (expired records that one did not).
HistAfter(thrown, detects, interval, t, others) ==
  LET a == AfterAction(thrown, detects, interval, t)
      q == /\ kind = "ThresholdExecutionCircuitBreaker"
           /\ thrown # "none" /\ a.consulted /\ detects
      late == t > errorCountIntervalEnd /\ hist.qualifying > 0
  IN [armedUntil |-> IF a.shouldTrip = "true" /\ others = 0 /\ interval > 0
                       THEN t + interval ELSE hist.armedUntil,
      qualifying |-> IF q /\ (hist.expired \/ late) THEN 0
                     ELSE IF q THEN hist.qualifying + 1
                     ELSE hist.qualifying,
      expired |-> hist.expired \/ (q /\ late)]

\* ------------------------------------------- DefaultCircuitBreakerPolicy
\* isCircuitBreakerOpen that looks at the breaker only.
IsCircuitBreakerOpenWhileTripped(t) ==
  IF ~circuitBreaker.isTripped THEN [open |-> FALSE, error |-> "undefined"]
  ELSE [open |-> TRUE, error |-> GetTripError(circuitBreaker, t).type]

\* isCircuitBreakerOpen at clock t: [open, error]
IsCircuitBreakerOpen(t) ==
  IF ~circuitBreaker.isTripped THEN [open |-> FALSE, error |-> "undefined"]
  ELSE IF policyNextRetry <= t /\ ~Truthy(policyShouldRetry)
    THEN [open |-> FALSE, error |-> "undefined"]
  ELSE [open |-> TRUE, error |-> GetTripError(circuitBreaker, t).type]

\* tryToTripCircuitBreaker that moves _nextRetry on the first trip only.
TryToTripKeepsNextRetry(t) ==
  LET c == JsInc(consecutiveFailures) IN
  IF JsLe(c, failuresAllowedBeforeTrip)
    THEN [ret |-> FALSE, consecutiveFailures |-> c, policyNextRetry |-> policyNextRetry,
          circuitBreaker |-> circuitBreaker]
    ELSE [ret |-> TRUE, consecutiveFailures |-> c,
          policyNextRetry |-> IF circuitBreaker.isTripped
                                THEN policyNextRetry ELSE t + retryInterval,
          circuitBreaker |-> BaseTrip(circuitBreaker, t).state]

\* tryToTripCircuitBreaker at clock t
TryToTripCircuitBreaker(t) ==
  LET c == JsInc(consecutiveFailures) IN
  IF JsLe(c, failuresAllowedBeforeTrip)
    THEN [ret |-> FALSE, consecutiveFailures |-> c, policyNextRetry |-> policyNextRetry,
          circuitBreaker |-> circuitBreaker]
    ELSE [ret |-> TRUE, consecutiveFailures |-> c, policyNextRetry |-> t + retryInterval,
          circuitBreaker |-> BaseTrip(circuitBreaker, t).state]

\* onSuccessfulRequest without the reset of the breaker.
OnSuccessfulRequestKeepsBreaker ==
  [consecutiveFailures |-> Num(0), circuitBreaker |-> circuitBreaker]

\* onSuccessfulRequest
OnSuccessfulRequest ==
  [consecutiveFailures |-> Num(0), circuitBreaker |-> BaseReset(circuitBreaker).state]

\* onNotified that arms the retry flag.
OnNotifiedSetsFlag == "true"

\* onNotified
OnNotified == "false"

\* How an optional callback slot behaves when the policy reaches it.
CallbackBehaviours == {"unset", "returns", "throws"}

\* What the last call on the policy did: open is what isCircuitBreakerOpen
\* answered when the call began, slot what the callback slot of the call holds,
\* calls the methods it invoked, in order.
NoPolicyOp ==
  [op |-> "none", reason |-> FALSE, raised |-> "none", ret |-> "n/a", calls |-> <<>>,
   slot |-> "unset", open |-> FALSE]

\* throwIfTripped that reaches the callback slot whatever the answer.
ThrowIfTrippedCallsBackAlways(o, terminating) ==
  IF terminating = "unset"
    THEN [calls |-> <<"isCircuitBreakerOpen">>,
          raised |-> IF o.open THEN o.error ELSE "none"]
  ELSE IF terminating = "throws"
    THEN [calls |-> <<"isCircuitBreakerOpen", "onTerminatingRequest">>,
          raised |-> "CallbackError"]
  ELSE [calls |-> <<"isCircuitBreakerOpen", "onTerminatingRequest">>,
        raised |-> IF o.open THEN o.error ELSE "none"]

\* throwIfTripped once isCircuitBreakerOpen answered o, with terminating in
\* the onTerminatingRequest slot: [calls, raised]
ThrowIfTrippedFrom(o, terminating) ==
  IF ~o.open
    THEN [calls |-> <<"isCircuitBreakerOpen">>, raised |-> "none"]
  ELSE IF terminating = "unset"
    THEN [calls |-> <<"isCircuitBreakerOpen">>, raised |-> o.error]
  ELSE IF terminating = "throws"
    THEN [calls |-> <<"isCircuitBreakerOpen", "onTerminatingRequest">>,
          raised |-> "CallbackError"]
  ELSE [calls |-> <<"isCircuitBreakerOpen", "onTerminatingRequest">>,
        raised |-> o.error]

\* The try block that calls tryToTripCircuitBreaker for every outcome.
NotifyTryBlockTripsAlways(reason, toOpen, t) ==
  LET r == TryToTripCircuitBreaker(t) IN
  [consecutiveFailures |-> r.consecutiveFailures,
   circuitBreaker |-> r.circuitBreaker,
   policyNextRetry |-> r.policyNextRetry,
   raised |-> "none", ret |-> IF r.ret THEN "true" ELSE "false",
   calls |-> <<"isReasonForTrip", "tryToTripCircuitBreaker">>]

\* The try block of notifyRequestFinished at clock t, with reason what
\* isReasonForTrip answers and toOpen what the onRequestToOpen slot holds:
\* the fields it leaves, what it raises and the methods it invoked.
NotifyTryBlock(reason, toOpen, t) ==
  IF ~reason
    THEN [consecutiveFailures |-> OnSuccessfulRequest.consecutiveFailures,
          circuitBreaker |-> OnSuccessfulRequest.circuitBreaker,
          policyNextRetry |-> policyNextRetry,
          raised |-> "none", ret |-> "n/a",
          calls |-> <<"isReasonForTrip", "onSuccessfulRequest">>]
  ELSE IF toOpen = "throws"
    THEN [consecutiveFailures |-> consecutiveFailures,
          circuitBreaker |-> circuitBreaker,
          policyNextRetry |-> policyNextRetry,
          raised |-> "CallbackError", ret |-> "n/a",
          calls |-> <<"isReasonForTrip", "onRequestToOpen">>]
  ELSE LET r == TryToTripCircuitBreaker(t) IN
       [consecutiveFailures |-> r.consecutiveFailures,
        circuitBreaker |-> r.circuitBreaker,
        policyNextRetry |-> r.policyNextRetry,
        raised |-> "none", ret |-> IF r.ret THEN "true" ELSE "false",
        calls |-> IF toOpen = "unset"
                    THEN <<"isReasonForTrip", "tryToTripCircuitBreaker">>
                    ELSE <<"isReasonForTrip", "onRequestToOpen",
                           "tryToTripCircuitBreaker">>]

\* notifyRequestFinished whose onNotified is skipped by a raise.
NotifyWithoutFinally(reason, toOpen, t) ==
  LET b == NotifyTryBlock(reason, toOpen, t) IN
  [consecutiveFailures |-> b.consecutiveFailures,
   circuitBreaker |-> b.circuitBreaker,
   policyNextRetry |-> b.policyNextRetry,
   policyShouldRetry |-> IF b.raised = "none" THEN OnNotified ELSE policyShouldRetry,
   raised |-> b.raised, ret |-> b.ret,
   calls |-> IF b.raised = "none" THEN Append(b.calls, "onNotified") ELSE b.calls]

\* notifyRequestFinished at clock t: the try block, then onNotified in the
\* finally block.
NotifyRequestFinishedFrom(reason, toOpen, t) ==
  LET b == NotifyTryBlock(reason, toOpen, t) IN
  [consecutiveFailures |-> b.consecutiveFailures,
   circuitBreaker |-> b.circuitBreaker,
   policyNextRetry |-> b.policyNextRetry,
   policyShouldRetry |-> OnNotified,
   raised |-> b.raised, ret |-> b.ret,
   calls |-> Append(b.calls, "onNotified")]

\* history of the policy: streak counts the qualifying notifications since
\* construction or the last non-qualifying one (fresh: none yet); reopenedAt
\* is the time of the latest qualifying notification that arrived while the
\* breaker was tripped with _nextRetry elapsed (-1 when none since the last
\* non-qualifying one), reopenRaised whether its onRequestToOpen threw.
NewPolicyHistory ==
  [streak |-> 0, fresh |-> TRUE, reopenedAt |-> -1, reopenRaised |-> FALSE]

PolicyHistoryAfter(reason, toOpen, t) ==
  LET inWindow == circuitBreaker.isTripped /\ t >= policyNextRetry IN
  IF ~reason
    THEN [streak |-> 0, fresh |-> FALSE, reopenedAt |-> -1, reopenRaised |-> FALSE]
    ELSE [streak |-> phist.streak + 1, fresh |-> phist.fresh,
          reopenedAt |-> IF inWindow THEN t ELSE phist.reopenedAt,
          reopenRaised |-> IF inWindow THEN toOpen = "throws"
                           ELSE phist.reopenRaised]

\* ---------------------------------------------------- ExponentialBackoff
ceilingForMaxAttempts == 10

\* Delays and random values are fixed-point numbers counted in 1/Units:
\* every product and quotient below is exact for the inputs drawn.
Units == 16

\* The arguments of calculateBackoff; Math.random() yields 0, 1/4, 1/2, 3/4.
Attempts == 0..MaxAttempt
MaxAttemptsInputs == -2..(ceilingForMaxAttempts + 2)
BaseDelays == {0, 1, 100}
MaxDelays == {0, 3, 1000}
Jitters == {"None", "Full", "Equal"}
RandomValues == {0, 4, 8, 12}

RECURSIVE Pow2(_)
Pow2(n) == IF n = 0 THEN 1 ELSE 2 * Pow2(n - 1)

\* Math.pow(2, n), in 1/Units
MathPow2(n) == IF n >= 0 THEN Units * Pow2(n) ELSE Units \div Pow2(-n)

\* Math.min
MathMin(a, b) == IF a <= b THEN a ELSE b

\* The range check that looks at the ceiling only.
MaxAttemptsAboveCeiling(maxAttempts) == maxAttempts > ceilingForMaxAttempts

\* maxAttempts < 0 || maxAttempts > this.ceilingForMaxAttempts
MaxAttemptsOutOfRange(maxAttempts) ==
  maxAttempts < 0 \/ maxAttempts > ceilingForMaxAttempts

\* The attempt left as passed.
ClampAttemptNever(attempt, maxAttempts) == attempt

\* if (attempt > maxAttempts) attempt = maxAttempts
ClampAttempt(attempt, maxAttempts) ==
  IF attempt > maxAttempts THEN maxAttempts ELSE attempt

\* The delay without its cap.
BackoffDelayUncapped(attempt, baseDelay, maxDelay) ==
  baseDelay * MathPow2(attempt - 1)

\* Math.min(baseDelay * Math.pow(2, attempt - 1), maxDelay), in 1/Units
BackoffDelay(attempt, baseDelay, maxDelay) ==
  MathMin(baseDelay * MathPow2(attempt - 1), maxDelay * Units)

\* The switch with the factors of Full and Equal exchanged.
ApplyJitterExchanged(delay, jitter, nextRandomValue) ==
  CASE jitter = "Equal" -> (delay * nextRandomValue) \div Units
    [] jitter = "Full" ->
         (delay * (Units \div 2 + (nextRandomValue * (Units \div 2)) \div Units))
           \div Units
    [] OTHER -> delay

\* switch (jitter): Full, Equal, default; all in 1/Units
ApplyJitter(delay, jitter, nextRandomValue) ==
  CASE jitter = "Full" -> (delay * nextRandomValue) \div Units
    [] jitter = "Equal" ->
         (delay * (Units \div 2 + (nextRandomValue * (Units \div 2)) \div Units))
           \div Units
    [] OTHER -> delay

\* calculateBackoff with nextRandomValue what Math.random() returns:
\* [threw, value]
CalculateBackoff(attempt, maxAttempts, baseDelay, maxDelay, jitter, nextRandomValue) ==
  IF MaxAttemptsOutOfRange(maxAttempts)
    THEN [threw |-> TRUE, value |-> 0]
    ELSE [threw |-> FALSE,
          value |-> ApplyJitter(
                      BackoffDelay(ClampAttempt(attempt, maxAttempts),
                                   baseDelay, maxDelay),
                      jitter, nextRandomValue)]

NoBackoff ==
  [called |-> FALSE, attempt |-> 0, maxAttempts |-> 0, baseDelay |-> 0,
   maxDelay |-> 0, jitter |-> "None", nextRandomValue |-> 0,
   threw |-> FALSE, value |-> 0]

\* ------------------------------------------------------- ServiceSentinel
SentinelClasses == {"ServiceSentinel", "TogglableServiceSentinel"}

\* What the health check does when the timer calls it.
HealthChecks == {"true", "false", "throws"}

\* setInterval: a fresh handle, which the runtime starts to run.
SetInterval(active, created) ==
  [handle |-> created + 1, intervals |-> active \cup {created + 1},
   timersCreated |-> created + 1]

\* clearInterval(handle)
ClearInterval(active, handle) == active \ {handle}

\* monitor(), called by a timer; healthCheck is what _healthCheck() does.
Monitor(s, healthCheck) ==
  IF s.isDisposed THEN s
  ELSE [s EXCEPT !.isHealthy = IF healthCheck = "throws" THEN FALSE
                               ELSE healthCheck = "true"]

\* dispose(disposing): [sentinel, intervals]
Dispose(s, active, disposing) ==
  IF s.isDisposed THEN [sentinel |-> s, intervals |-> active]
  ELSE IF disposing
    THEN [sentinel |-> [s EXCEPT !.isDisposed = TRUE],
          intervals |-> ClearInterval(active, s.monitorTimer)]
  ELSE [sentinel |-> s, intervals |-> active]

\* start() that sets a timer whether or not the sentinel runs.
StartUnguarded(s, active, created) ==
  LET i == SetInterval(active, created) IN
  [sentinel |-> [s EXCEPT !.isRunning = "true", !.monitorTimer = i.handle],
   intervals |-> i.intervals, timersCreated |-> i.timersCreated]

\* TogglableServiceSentinel.start(): [sentinel, intervals, timersCreated]
Start(s, active, created) ==
  IF Truthy(s.isRunning)
    THEN [sentinel |-> s, intervals |-> active, timersCreated |-> created]
    ELSE LET i == SetInterval(active, created) IN
         [sentinel |-> [s EXCEPT !.isRunning = "true", !.monitorTimer = i.handle],
          intervals |-> i.intervals, timersCreated |-> i.timersCreated]

\* TogglableServiceSentinel.stop(): [sentinel, intervals]
Stop(s, active) ==
  IF ~Truthy(s.isRunning) THEN [sentinel |-> s, intervals |-> active]
  ELSE [sentinel |-> [s EXCEPT !.isRunning = "false"],
        intervals |-> ClearInterval(active, s.monitorTimer)]

NoSentinelOp == [op |-> "none", disposing |-> FALSE, healthCheck |-> "true", handle |-> 0]

\* ------------------------------------------- executeAsync, by statement
\* executeAsync has one await (its action): the statements before it run
\* when the call is made, those after it when the action has settled, and a
\* block of statements once begun runs to its end before any other code.
Calls == 1..MaxCalls

\* Where a call stands: not running ("idle"), before _attemptToProceed
\* ("gate"), suspended at the await, or before one of the statements that
\* follow it.
SyncPcs == {"gate", "catch", "write", "trip", "finally", "reset"}

\* One call: probe, it passed the gate of a tripped breaker; thrown, what its
\* action threw; raised, what the call raised; overrode, its reset() closed a
\* breaker that was tripped with the retry time still ahead.
NoCall ==
  [pc |-> "idle", probe |-> FALSE, thrown |-> "none", raised |-> "none",
   overrode |-> FALSE]

\* Blocks that begin whatever other code is running.
MayStartAnytime(r) == TRUE

\* A call, or the continuation of an await, begins when no other code runs.
MayStart(r) == r = 0

\* The statements of a block follow one another: call i runs when it is the
\* one that began.
MayRun(i, r) == r = i

\* ------------------------------------------------------------------ Init
\* A newly constructed breaker of class k with the getters' answers n and i.
New(k, n, i) ==
  /\ now = 1
  /\ kind = k
  /\ errorCountGetter = n
  /\ errorIntervalGetter = i
  /\ cb = NewBreaker
  /\ nextRetry = MinDate
  /\ shouldRetry = "undefined"
  /\ errorCount = Undefined
  /\ errorCountIntervalEnd = MinDate
  /\ inflight = [closed |-> 0, probe |-> 0]
  /\ last = NoOp
  /\ hist = [armedUntil |-> MinDate, qualifying |-> 0, expired |-> FALSE]

\* A newly constructed policy with the config's answers n and r.
NewPolicy(n, r) ==
  /\ failuresAllowedBeforeTrip = n
  /\ retryInterval = r
  /\ circuitBreaker = NewBreaker
  /\ policyShouldRetry = "undefined"
  /\ consecutiveFailures = Undefined
  /\ policyNextRetry = MinDate
  /\ plast = NoPolicyOp
  /\ phist = NewPolicyHistory

\* A newly constructed sentinel of class c with the initial health h: the
\* constructor of ServiceSentinel sets the timer, that of the togglable
\* class then sets _isRunning.
NewSentinel(c, h) ==
  /\ sentinel = [class |-> c, isDisposed |-> FALSE, isHealthy |-> h,
                 isRunning |-> IF c = "TogglableServiceSentinel"
                                 THEN "true" ELSE "undefined",
                 monitorTimer |-> SetInterval({}, 0).handle]
  /\ intervals = SetInterval({}, 0).intervals
  /\ timersCreated = SetInterval({}, 0).timersCreated
  /\ slast = NoSentinelOp

\* No executeAsync call made yet.
NoCalls ==
  /\ calls = [i \in Calls |-> NoCall]
  /\ running = 0

\* Any of the three classes; the threshold breaker trips on the second
\* failure inside a window of two ticks.
Init ==
  /\ \/ \E k \in {"CircuitBreaker", "ExecutionCircuitBreaker"} : New(k, 0, 0)
     \/ New("ThresholdExecutionCircuitBreaker", 1, 2)
  /\ NewPolicy(0, 0)
  /\ backoff = NoBackoff
  /\ NewSentinel("ServiceSentinel", TRUE)
  /\ NoCalls

\* A threshold breaker with any of the getters' answers.
InitThreshold ==
  /\ \E n \in ErrorThresholds, i \in ErrorIntervals :
       New("ThresholdExecutionCircuitBreaker", n, i)
  /\ NewPolicy(0, 0)
  /\ backoff = NoBackoff
  /\ NewSentinel("ServiceSentinel", TRUE)
  /\ NoCalls

\* A policy with any of the config's answers.
InitPolicy ==
  /\ New("CircuitBreaker", 0, 0)
  /\ \E n \in FailuresAllowed, r \in PolicyRetryIntervals : NewPolicy(n, r)
  /\ backoff = NoBackoff
  /\ NewSentinel("ServiceSentinel", TRUE)
  /\ NoCalls

\* An execution wrapper of either strategy, before its first call.
InitRecovery ==
  /\ \/ New("ExecutionCircuitBreaker", 0, 0)
     \/ \E n \in {0, 1}, i \in ErrorIntervals :
          New("ThresholdExecutionCircuitBreaker", n, i)
  /\ NewPolicy(0, 0)
  /\ backoff = NoBackoff
  /\ NewSentinel("ServiceSentinel", TRUE)
  /\ NoCalls

\* A sentinel of either class, healthy or not.
InitSentinel ==
  /\ New("CircuitBreaker", 0, 0)
  /\ NewPolicy(0, 0)
  /\ backoff = NoBackoff
  /\ \E c \in SentinelClasses, h \in BOOLEAN : NewSentinel(c, h)
  /\ NoCalls

\* An execution wrapper of either strategy on which executeAsync is called.
InitAsync ==
  /\ \/ New("ExecutionCircuitBreaker", 0, 0)
     \/ New("ThresholdExecutionCircuitBreaker", 1, 2)
  /\ NewPolicy(0, 0)
  /\ backoff = NoBackoff
  /\ NewSentinel("ServiceSentinel", TRUE)
  /\ NoCalls

\* No call of calculateBackoff made yet.
InitBackoff ==
  /\ New("CircuitBreaker", 0, 0)
  /\ NewPolicy(0, 0)
  /\ backoff = NoBackoff
  /\ NewSentinel("ServiceSentinel", TRUE)
  /\ NoCalls

\* --------------------------------------------------------------- actions
\* The clock advances between operations.
Tick ==
  /\ UNCHANGED <<pvars, bvars, svars, avars>>
  /\ now < MaxTime
  /\ now' = now + 1
  /\ last' = [NoOp EXCEPT !.op = "tick"]
  /\ UNCHANGED <<kind, errorCountGetter, errorIntervalGetter, cb, nextRetry,
                 shouldRetry, errorCount, errorCountIntervalEnd, inflight, hist>>

\* trip()
Trip ==
  /\ UNCHANGED <<pvars, bvars, svars, avars>>
  /\ cb' = BaseTrip(cb, now).state
  /\ last' = [NoOp EXCEPT !.op = "trip",
                          !.ret = IF BaseTrip(cb, now).ret THEN "true" ELSE "false"]
  /\ UNCHANGED <<now, kind, errorCountGetter, errorIntervalGetter, nextRetry,
                 shouldRetry, errorCount, errorCountIntervalEnd, inflight, hist>>

\* reset()
ResetOp ==
  /\ UNCHANGED <<pvars, bvars, svars, avars>>
  /\ cb' = Reset(cb, nextRetry).state
  /\ nextRetry' = Reset(cb, nextRetry).nextRetry
  /\ last' = [NoOp EXCEPT !.op = "reset",
                          !.ret = IF Reset(cb, nextRetry).ret THEN "true" ELSE "false"]
  /\ hist' = [hist EXCEPT !.armedUntil = MinDate]
  /\ UNCHANGED <<now, kind, errorCountGetter, errorIntervalGetter,
                 shouldRetry, errorCount, errorCountIntervalEnd, inflight>>

\* test()
Test ==
  /\ UNCHANGED <<pvars, bvars, svars, avars>>
  /\ last' = [NoOp EXCEPT !.op = "test", !.raised = BaseTest(cb, now)]
  /\ UNCHANGED <<now, kind, errorCountGetter, errorIntervalGetter, cb, nextRetry,
                 shouldRetry, errorCount, errorCountIntervalEnd, inflight, hist>>

\* getTripError()
GetTripErrorOp ==
  /\ UNCHANGED <<pvars, bvars, svars, avars>>
  /\ last' = [NoOp EXCEPT !.op = "getTripError", !.ret = GetTripError(cb, now).type]
  /\ UNCHANGED <<now, kind, errorCountGetter, errorIntervalGetter, cb, nextRetry,
                 shouldRetry, errorCount, errorCountIntervalEnd, inflight, hist>>

\* execute(action) stopped by the gate.
ExecuteRejected ==
  /\ UNCHANGED <<pvars, bvars, svars, avars>>
  /\ IsExecutionBreaker
  /\ AttemptToProceed(cb, now, nextRetry, shouldRetry) # "none"
  /\ last' = [NoOp EXCEPT !.op = "execute",
                          !.raised = AttemptToProceed(cb, now, nextRetry, shouldRetry)]
  /\ UNCHANGED <<now, kind, errorCountGetter, errorIntervalGetter, cb, nextRetry,
                 shouldRetry, errorCount, errorCountIntervalEnd, inflight, hist>>

\* execute(action) past the gate: the action runs for dt ticks, then the
\* catch / finally / reset bookkeeping.
ExecuteAdmitted ==
  /\ UNCHANGED <<pvars, bvars, svars, avars>>
  /\ IsExecutionBreaker
  /\ AttemptToProceed(cb, now, nextRetry, shouldRetry) = "none"
  /\ \E thrown \in Outcomes, dt \in 0..1 :
       \E detects \in DetectorAnswers(thrown) :
         \E interval \in IntervalAnswers(thrown, detects, now + dt) :
           /\ now + dt <= MaxTime
           /\ CountRoom(thrown, detects, now + dt)
           /\ LET t == now + dt
                  a == AfterAction(thrown, detects, interval, t)
              IN /\ now' = t
                 /\ cb' = a.cb
                 /\ nextRetry' = a.nextRetry
                 /\ shouldRetry' = a.shouldRetry
                 /\ errorCount' = a.errorCount
                 /\ errorCountIntervalEnd' = a.errorCountIntervalEnd
                 /\ hist' = HistAfter(thrown, detects, interval, t,
                                      InFlightTotal(inflight))
                 /\ last' = [op |-> "execute", admitted |-> TRUE,
                             probe |-> cb.isTripped, thrown |-> thrown,
                             raised |-> a.raised, ret |-> "void", detects |-> detects,
                             shouldTrip |-> a.shouldTrip, interval |-> interval]
  /\ UNCHANGED <<kind, errorCountGetter, errorIntervalGetter, inflight>>

\* execute(action) whose action completes without throwing.
ExecuteSucceeds == ExecuteAdmitted /\ last'.thrown = "none"

\* execute(action) whose action throws; a retry time it writes lies within
\* the clock values of the model.
ExecuteFails ==
  ExecuteAdmitted /\ last'.thrown # "none" /\ nextRetry' <= MaxTime

\* executeAsync(action) stopped by the gate.
ExecuteAsyncRejected ==
  /\ UNCHANGED <<pvars, bvars, svars, avars>>
  /\ IsExecutionBreaker
  /\ AttemptToProceed(cb, now, nextRetry, shouldRetry) # "none"
  /\ last' = [NoOp EXCEPT !.op = "executeAsync",
                          !.raised = AttemptToProceed(cb, now, nextRetry, shouldRetry)]
  /\ UNCHANGED <<now, kind, errorCountGetter, errorIntervalGetter, cb, nextRetry,
                 shouldRetry, errorCount, errorCountIntervalEnd, inflight, hist>>

\* executeAsync(action) past the gate, up to its await: the action is started.
ExecuteAsyncBegin ==
  /\ UNCHANGED <<pvars, bvars, svars, avars>>
  /\ IsExecutionBreaker
  /\ AttemptToProceed(cb, now, nextRetry, shouldRetry) = "none"
  /\ InFlightTotal(inflight) < MaxInFlight
  /\ inflight' = IF cb.isTripped
                   THEN [inflight EXCEPT !.probe = @ + 1]
                   ELSE [inflight EXCEPT !.closed = @ + 1]
  /\ last' = [NoOp EXCEPT !.op = "executeAsync", !.admitted = TRUE,
                          !.probe = cb.isTripped]
  /\ UNCHANGED <<now, kind, errorCountGetter, errorIntervalGetter, cb, nextRetry,
                 shouldRetry, errorCount, errorCountIntervalEnd, hist>>

\* executeAsync(action) from the await on: the action of one call in flight
\* settles and the catch / finally / reset bookkeeping runs.
ExecuteAsyncSettle ==
  /\ UNCHANGED <<pvars, bvars, svars, avars>>
  /\ IsExecutionBreaker
  /\ \E g \in {"closed", "probe"}, thrown \in Outcomes :
       \E detects \in DetectorAnswers(thrown) :
         \E interval \in IntervalAnswers(thrown, detects, now) :
           /\ inflight[g] > 0
           /\ CountRoom(thrown, detects, now)
           /\ LET a == AfterAwaitedAction(thrown, detects, interval, now) IN
              /\ cb' = a.cb
              /\ nextRetry' = a.nextRetry
              /\ shouldRetry' = a.shouldRetry
              /\ errorCount' = a.errorCount
              /\ errorCountIntervalEnd' = a.errorCountIntervalEnd
              /\ inflight' = [inflight EXCEPT ![g] = @ - 1]
              /\ hist' = HistAfter(thrown, detects, interval, now,
                                   InFlightTotal(inflight) - 1)
              /\ last' = [op |-> "executeAsync.settled", admitted |-> TRUE,
                          probe |-> g = "probe",
                          thrown |-> thrown, raised |-> a.raised, ret |-> "void",
                          detects |-> detects, shouldTrip |-> a.shouldTrip,
                          interval |-> interval]
  /\ UNCHANGED <<now, kind, errorCountGetter, errorIntervalGetter>>

\* The clock advances between operations on the policy.
PolicyTick ==
  /\ UNCHANGED <<wvars, bvars, svars, avars>>
  /\ now < MaxPolicyTime
  /\ now' = now + 1
  /\ plast' = [NoPolicyOp EXCEPT !.op = "tick"]
  /\ UNCHANGED <<failuresAllowedBeforeTrip, retryInterval, circuitBreaker,
                 policyShouldRetry, consecutiveFailures, policyNextRetry, phist>>

\* throwIfTripped(executionContext); terminating is what the
\* onTerminatingRequest slot does when reached.
ThrowIfTripped ==
  /\ UNCHANGED <<wvars, bvars, svars, avars>>
  /\ \E terminating \in CallbackBehaviours :
       LET o == IsCircuitBreakerOpen(now)
           r == ThrowIfTrippedFrom(o, terminating)
       IN plast' = [NoPolicyOp EXCEPT !.op = "throwIfTripped",
                                      !.calls = r.calls, !.raised = r.raised,
                                      !.slot = terminating, !.open = o.open]
  /\ UNCHANGED <<now, failuresAllowedBeforeTrip, retryInterval, circuitBreaker,
                 policyShouldRetry, consecutiveFailures, policyNextRetry, phist>>

\* notifyRequestFinished(executionContext, error); reason is what
\* isReasonForTrip answers and toOpen what the onRequestToOpen slot does when
\* reached.
NotifyRequestFinished ==
  /\ UNCHANGED <<wvars, bvars, svars, avars>>
  /\ \E reason \in BOOLEAN, toOpen \in CallbackBehaviours :
       LET n == NotifyRequestFinishedFrom(reason, toOpen, now) IN
       /\ phist.streak < MaxConsecutiveFailures
       /\ consecutiveFailures' = n.consecutiveFailures
       /\ circuitBreaker' = n.circuitBreaker
       /\ policyNextRetry' = n.policyNextRetry
       /\ policyShouldRetry' = n.policyShouldRetry
       /\ plast' = [op |-> "notifyRequestFinished", reason |-> reason,
                    raised |-> n.raised, ret |-> n.ret, calls |-> n.calls,
                    slot |-> toOpen, open |-> IsCircuitBreakerOpen(now).open]
       /\ phist' = PolicyHistoryAfter(reason, toOpen, now)
  /\ UNCHANGED <<now, failuresAllowedBeforeTrip, retryInterval>>

\* ExponentialBackoff.calculateBackoff(attempt, maxAttempts, baseDelay,
\* maxDelay, jitter), with what Math.random() returns in the call. The method
\* is static and keeps nothing between calls: one call per behaviour.
CalculateBackoffOp ==
  /\ ~backoff.called
  /\ \E attempt \in Attempts, maxAttempts \in MaxAttemptsInputs,
        baseDelay \in BaseDelays, maxDelay \in MaxDelays,
        jitter \in Jitters, nextRandomValue \in RandomValues :
       LET c == CalculateBackoff(attempt, maxAttempts, baseDelay, maxDelay,
                                 jitter, nextRandomValue)
       IN backoff' = [called |-> TRUE, attempt |-> attempt,
                      maxAttempts |-> maxAttempts, baseDelay |-> baseDelay,
                      maxDelay |-> maxDelay, jitter |-> jitter,
                      nextRandomValue |-> nextRandomValue,
                      threw |-> c.threw, value |-> c.value]
  /\ UNCHANGED <<now, wvars, pvars, svars, avars>>

\* executeAsync(action) is called: call i begins to run.
AsyncEnter ==
  /\ UNCHANGED <<now, wvars, pvars, bvars, svars>>
  /\ MayStart(running)
  /\ \E i \in Calls :
       /\ calls[i].pc = "idle"
       /\ calls' = [calls EXCEPT ![i] = [NoCall EXCEPT !.pc = "gate"]]
       /\ running' = i

\* this._attemptToProceed(): the call is rejected, or it starts its action
\* and is suspended at the await.
AsyncGate ==
  /\ UNCHANGED <<now, wvars, pvars, bvars, svars>>
  /\ \E i \in Calls :
       /\ MayRun(i, running) /\ calls[i].pc = "gate"
       /\ LET e == AttemptToProceed(cb, now, nextRetry, shouldRetry) IN
          calls' = [calls EXCEPT ![i] =
                      IF e = "none"
                        THEN [@ EXCEPT !.pc = "await", !.probe = cb.isTripped]
                        ELSE [@ EXCEPT !.pc = "idle", !.raised = e]]
       /\ running' = 0

\* The awaited action settles and the call resumes in the catch block or,
\* when nothing was thrown, in the finally block.
AsyncResume ==
  /\ UNCHANGED <<now, wvars, pvars, bvars, svars>>
  /\ MayStart(running)
  /\ \E i \in Calls, thrown \in {"none", "TestError"} :
       /\ calls[i].pc = "await"
       /\ thrown # "none"
            => (errorCount.k # "number" \/ errorCount.v < MaxErrorCount)
       /\ calls' = [calls EXCEPT ![i] =
                      [@ EXCEPT !.pc = IF thrown = "none" THEN "finally" ELSE "catch",
                                !.thrown = thrown, !.raised = thrown]]
       /\ running' = i

\* catch (e) { if (this.shouldTrip(e)) ...
AsyncCatch ==
  /\ UNCHANGED <<pvars, bvars, svars>>
  /\ \E i \in Calls, detects \in BOOLEAN :
       /\ MayRun(i, running) /\ calls[i].pc = "catch"
       /\ LET s == ShouldTrip(calls[i].thrown, detects, now, errorCount,
                              errorCountIntervalEnd)
          IN /\ errorCount' = s.errorCount
             /\ errorCountIntervalEnd' = s.errorCountIntervalEnd
             /\ calls' = [calls EXCEPT ![i] =
                            [@ EXCEPT !.pc = IF ~s.threw /\ s.result
                                               THEN "write" ELSE "finally",
                                      !.raised = IF s.threw THEN "ArgumentError"
                                                 ELSE @]]
  /\ UNCHANGED <<now, kind, errorCountGetter, errorIntervalGetter, cb, nextRetry,
                 shouldRetry, inflight, last, hist, running>>

\* this._nextRetry = new Date(super.now.getTime() + this.retryInterval)
AsyncWrite ==
  /\ UNCHANGED <<pvars, bvars, svars>>
  /\ \E i \in Calls, interval \in RetryIntervals :
       /\ MayRun(i, running) /\ calls[i].pc = "write"
       /\ now + interval <= MaxTime
       /\ nextRetry' = now + interval
       /\ calls' = [calls EXCEPT ![i].pc = "trip"]
  /\ UNCHANGED <<now, kind, errorCountGetter, errorIntervalGetter, cb,
                 shouldRetry, errorCount, errorCountIntervalEnd, inflight, last,
                 hist, running>>

\* this.trip(), then throw e reaches the finally block
AsyncTrip ==
  /\ UNCHANGED <<pvars, bvars, svars>>
  /\ \E i \in Calls :
       /\ MayRun(i, running) /\ calls[i].pc = "trip"
       /\ cb' = BaseTrip(cb, now).state
       /\ calls' = [calls EXCEPT ![i].pc = "finally"]
  /\ UNCHANGED <<now, kind, errorCountGetter, errorIntervalGetter, nextRetry,
                 shouldRetry, errorCount, errorCountIntervalEnd, inflight, last,
                 hist, running>>

\* finally { this._shouldRetry = true }: a call that caught an error ends
\* here, raising it; the others go on to reset().
AsyncFinally ==
  /\ UNCHANGED <<pvars, bvars, svars>>
  /\ \E i \in Calls :
       /\ MayRun(i, running) /\ calls[i].pc = "finally"
       /\ shouldRetry' = "true"
       /\ calls' = [calls EXCEPT ![i].pc = IF calls[i].thrown = "none"
                                             THEN "reset" ELSE "idle"]
       /\ running' = IF calls[i].thrown = "none" THEN i ELSE 0
  /\ UNCHANGED <<now, kind, errorCountGetter, errorIntervalGetter, cb, nextRetry,
                 errorCount, errorCountIntervalEnd, inflight, last, hist>>

\* this.reset(), the last statement of a call whose action threw nothing
AsyncReset ==
  /\ UNCHANGED <<pvars, bvars, svars>>
  /\ \E i \in Calls :
       /\ MayRun(i, running) /\ calls[i].pc = "reset"
       /\ cb' = WrapperReset(cb, nextRetry).state
       /\ nextRetry' = WrapperReset(cb, nextRetry).nextRetry
       /\ calls' = [calls EXCEPT ![i] =
                      [@ EXCEPT !.pc = "idle",
                                !.overrode = /\ ~calls[i].probe /\ cb.isTripped
                                             /\ now < nextRetry]]
       /\ running' = 0
  /\ UNCHANGED <<now, kind, errorCountGetter, errorIntervalGetter, shouldRetry,
                 errorCount, errorCountIntervalEnd, inflight, last, hist>>

\* A timer the runtime runs fires and calls monitor().
MonitorTimerFires ==
  /\ UNCHANGED <<now, wvars, pvars, bvars, avars>>
  /\ \E handle \in intervals, healthCheck \in HealthChecks :
       /\ sentinel' = Monitor(sentinel, healthCheck)
       /\ slast' = [NoSentinelOp EXCEPT !.op = "monitor", !.handle = handle,
                                        !.healthCheck = healthCheck]
  /\ UNCHANGED <<intervals, timersCreated>>

\* dispose(disposing)
DisposeOp ==
  /\ UNCHANGED <<now, wvars, pvars, bvars, avars>>
  /\ \E disposing \in BOOLEAN :
       /\ sentinel' = Dispose(sentinel, intervals, disposing).sentinel
       /\ intervals' = Dispose(sentinel, intervals, disposing).intervals
       /\ slast' = [NoSentinelOp EXCEPT !.op = "dispose", !.disposing = disposing]
  /\ UNCHANGED timersCreated

\* start()
StartOp ==
  /\ UNCHANGED <<now, wvars, pvars, bvars, avars>>
  /\ sentinel.class = "TogglableServiceSentinel"
  /\ Start(sentinel, intervals, timersCreated).timersCreated <= MaxTimers
  /\ sentinel' = Start(sentinel, intervals, timersCreated).sentinel
  /\ intervals' = Start(sentinel, intervals, timersCreated).intervals
  /\ timersCreated' = Start(sentinel, intervals, timersCreated).timersCreated
  /\ slast' = [NoSentinelOp EXCEPT !.op = "start"]

\* stop()
StopOp ==
  /\ UNCHANGED <<now, wvars, pvars, bvars, avars>>
  /\ sentinel.class = "TogglableServiceSentinel"
  /\ sentinel' = Stop(sentinel, intervals).sentinel
  /\ intervals' = Stop(sentinel, intervals).intervals
  /\ slast' = [NoSentinelOp EXCEPT !.op = "stop"]
  /\ UNCHANGED timersCreated

\* The operations on a breaker (plain, immediate or threshold).
Next ==
  \/ Tick
  \/ Trip
  \/ ResetOp
  \/ Test
  \/ GetTripErrorOp
  \/ ExecuteRejected
  \/ ExecuteAdmitted
  \/ ExecuteAsyncRejected
  \/ ExecuteAsyncBegin
  \/ ExecuteAsyncSettle

vars == <<now, wvars, pvars, bvars, svars, avars>>

Spec == Init /\ [][Next]_vars

\* The threshold breaker under sequential use: execute, reset and the clock.
NextThreshold ==
  \/ Tick
  \/ ResetOp
  \/ ExecuteRejected
  \/ ExecuteAdmitted

SpecThreshold == InitThreshold /\ [][NextThreshold]_vars

\* The operations on a decoupled policy.
NextPolicy ==
  \/ PolicyTick
  \/ ThrowIfTripped
  \/ NotifyRequestFinished

SpecPolicy == InitPolicy /\ [][NextPolicy]_vars

\* Callers that keep calling execute while the clock advances: the clock
\* does not stop, and a call whose action succeeds is made whenever the gate
\* stays passable.
NextRecovery ==
  \/ Tick
  \/ ExecuteRejected
  \/ ExecuteSucceeds
  \/ ExecuteFails

SpecRecovery ==
  /\ InitRecovery /\ [][NextRecovery]_vars
  /\ WF_vars(Tick) /\ WF_vars(ExecuteSucceeds)

\* Overlapping executeAsync calls, statement by statement, and the clock.
NextAsync ==
  \/ Tick
  \/ AsyncEnter
  \/ AsyncGate
  \/ AsyncResume
  \/ AsyncCatch
  \/ AsyncWrite
  \/ AsyncTrip
  \/ AsyncFinally
  \/ AsyncReset

SpecAsync == InitAsync /\ [][NextAsync]_vars

\* The operations on a sentinel and the timers of the runtime.
NextSentinel ==
  \/ MonitorTimerFires
  \/ DisposeOp
  \/ StartOp
  \/ StopOp

SpecSentinel == InitSentinel /\ [][NextSentinel]_vars

\* Calls of the backoff calculator.
NextBackoff ==
  \/ CalculateBackoffOp

SpecBackoff == InitBackoff /\ [][NextBackoff]_vars

\* ================================================================ claims
IsCall(l) == l.op \in {"execute", "executeAsync"}
IsSettled(l) == l.op \in {"execute", "executeAsync.settled"} /\ l.admitted

\* C1: after a call whose action failed at t with shouldTrip true and a
\* retry interval R > 0 (no other call in flight), every execute /
\* executeAsync issued while now < t + R with no reset() in between raises
\* CircuitBreakerError, does not invoke its action and leaves isTripped,
\* trippedAt, _nextRetry and _shouldRetry as they were.
C1_RejectedWhileOpen ==
  [][(IsCall(last') /\ now < hist.armedUntil)
       => /\ last'.raised = "CircuitBreakerError"
          /\ ~last'.admitted
          /\ UNCHANGED <<cb, nextRetry, shouldRetry, inflight>>]_vars

C1_Witness ==
  /\ IsCall(last) /\ last.raised = "CircuitBreakerError"
  /\ now < hist.armedUntil
  /\ cb.isTripped /\ cb.trippedAt.v < now

\* C2 (as claimed): a call that passed the gate raises exactly the value its
\* action threw, for both strategies and every thrown value.
C2_ThrownValuePropagated ==
  (IsSettled(last) /\ last.thrown # "none") => last.raised = last.thrown

\* C3: right after a call whose action completed normally the wrapper is
\* closed: not tripped, no trippedAt, _nextRetry at its initial value.
C3_SuccessCloses ==
  (IsSettled(last) /\ last.thrown = "none")
    => cb = NewBreaker /\ nextRetry = MinDate /\ last.raised = "none"

C3_Witness ==
  /\ last.op = "executeAsync.settled" /\ last.thrown = "none" /\ last.probe
  /\ cb = NewBreaker /\ nextRetry = MinDate

\* C4: a call on a tripped breaker is admitted iff now >= _nextRetry and
\* _shouldRetry is true, and otherwise raises the trip error; a call on an
\* untripped breaker is always admitted.
C4_GateRule ==
  [][IsCall(last')
       => /\ last'.admitted
               <=> (~cb.isTripped \/ (now >= nextRetry /\ shouldRetry = "true"))
          /\ ~last'.admitted => last'.raised = "CircuitBreakerError"
          /\ last'.probe <=> (last'.admitted /\ cb.isTripped)]_vars

C4_Witness ==
  /\ last.op = "execute" /\ last.admitted /\ last.probe
  /\ hist.armedUntil > MinDate /\ now >= hist.armedUntil

\* C5: trippedAt is present iff isTripped, in every reachable state.
C5_TrippedAtIffTripped == (cb.trippedAt.k = "number") <=> cb.isTripped

C5_Witness ==
  /\ cb.isTripped /\ cb.trippedAt.k = "number"
  /\ last.op = "executeAsync.settled" /\ InFlightTotal(inflight) > 0

\* C6: trip() returns true exactly when the breaker was untripped; on a
\* tripped breaker it returns false and leaves isTripped and trippedAt alone.
C6_TripIdempotent ==
  [][last'.op = "trip"
       => /\ (last'.ret = "true") <=> ~cb.isTripped
          /\ cb'.isTripped
          /\ cb.isTripped => cb' = cb
          /\ ~cb.isTripped => cb'.trippedAt = Num(now)]_vars

C6_Witness ==
  last.op = "trip" /\ last.ret = "false" /\ cb.isTripped /\ cb.trippedAt.v + 2 <= now

\* C7: reset() returns true exactly when the breaker was tripped; on an
\* untripped breaker it returns false and changes nothing (isTripped,
\* trippedAt, _nextRetry, _shouldRetry), for the plain breaker and the wrapper.
C7_ResetFrame ==
  [][last'.op = "reset"
       => /\ (last'.ret = "true") <=> cb.isTripped
          /\ ~cb.isTripped => UNCHANGED <<cb, nextRetry, shouldRetry, errorCount,
                                          errorCountIntervalEnd, inflight>>]_vars

C7_Witness ==
  /\ last.op = "reset" /\ last.ret = "false"
  /\ IsExecutionBreaker /\ shouldRetry = "true" /\ InFlightTotal(inflight) > 0

\* C8: ExecutionCircuitBreaker: when an admitted call's action fails at t and
\* the failure detector answers true, afterwards isTripped and
\* _nextRetry = t + retryInterval; when it answers false the call leaves
\* isTripped and _nextRetry alone.
C8_ImmediateTrip ==
  [][(kind = "ExecutionCircuitBreaker" /\ IsSettled(last') /\ last'.thrown # "none")
       => IF last'.detects
            THEN cb'.isTripped /\ nextRetry' = now' + last'.interval
            ELSE cb' = cb /\ nextRetry' = nextRetry]_vars

C8_Witness ==
  /\ kind = "ExecutionCircuitBreaker" /\ IsSettled(last) /\ last.thrown # "none"
  /\ last.detects /\ last.interval = 2
  /\ cb.isTripped /\ nextRetry = now + 2

\* C9: ThresholdExecutionCircuitBreaker with threshold N: while no window has
\* expired between failures, shouldTrip is false on the first N qualifying
\* failures and true from the (N+1)-th; a call trips only when the count,
\* that failure included, exceeds N.
C9_ThresholdTrip ==
  (last.op = "execute" /\ last.admitted /\ last.thrown = "TestError" /\ last.detects)
    => /\ ~hist.expired
            => /\ errorCount = Num(hist.qualifying)
               /\ (last.shouldTrip = "true") <=> (hist.qualifying > errorCountGetter)
       /\ (last.shouldTrip = "true")
            <=> (errorCount.k = "number" /\ errorCount.v > errorCountGetter)
       /\ (last.shouldTrip = "true") => cb.isTripped

C9_Witness ==
  /\ last.op = "execute" /\ last.shouldTrip = "true"
  /\ errorCountGetter = 2 /\ hist.qualifying = 3 /\ ~hist.expired

\* C10 (as claimed): a new policy with failuresAllowedBeforeTrip = N is
\* untripped after each of the first N qualifying notifications
\* (tryToTripCircuitBreaker returns false) and tripped on the (N+1)-th, and
\* _consecutiveFailures is the number of qualifying notifications since
\* construction or since the last non-qualifying one.
C10_TripsAfterAllowance ==
  (plast.op = "notifyRequestFinished" /\ plast.reason /\ plast.raised = "none")
    => /\ consecutiveFailures = Num(phist.streak)
       /\ (phist.fresh /\ phist.streak <= failuresAllowedBeforeTrip)
            => ~circuitBreaker.isTripped /\ plast.ret = "false"
       /\ (phist.fresh /\ phist.streak = failuresAllowedBeforeTrip + 1)
            => circuitBreaker.isTripped /\ plast.ret = "true"

\* C11: after a notifyRequestFinished for which isReasonForTrip answered
\* false, from any prior state (tripped with now < _nextRetry included),
\* _consecutiveFailures is 0 and the internal breaker is untripped, so that
\* isCircuitBreakerOpen answers closed now and at every later time and the
\* next throwIfTripped returns normally.
C11_SuccessClosesPolicy ==
  (plast.op = "notifyRequestFinished" /\ ~plast.reason)
    => /\ consecutiveFailures = Num(0)
       /\ circuitBreaker = NewBreaker
       /\ plast.raised = "none"
       /\ \A t \in now..MaxPolicyTime :
            ThrowIfTrippedFrom(IsCircuitBreakerOpen(t), "returns").raised = "none"

C11_Witness ==
  /\ plast.op = "notifyRequestFinished" /\ ~plast.reason /\ plast.open
  /\ now < policyNextRetry
  /\ consecutiveFailures = Num(0) /\ ~circuitBreaker.isTripped

\* C12: isCircuitBreakerOpen answers closed when the internal breaker is
\* untripped, closed when it is tripped with now >= _nextRetry and
\* _shouldRetry not true, and open with the trip error in every other tripped
\* state (in particular tripped with now < _nextRetry); throwIfTripped, which
\* makes the check, changes no state of the policy.
C12_OpenRule ==
  [][plast'.op = "throwIfTripped"
       => LET o == IsCircuitBreakerOpen(now)
              probe == now >= policyNextRetry /\ policyShouldRetry # "true"
          IN /\ ~circuitBreaker.isTripped
                  => o = [open |-> FALSE, error |-> "undefined"]
             /\ (circuitBreaker.isTripped /\ probe)
                  => o = [open |-> FALSE, error |-> "undefined"]
             /\ (circuitBreaker.isTripped /\ ~probe)
                  => o = [open |-> TRUE, error |-> "CircuitBreakerError"]
             /\ (circuitBreaker.isTripped /\ now < policyNextRetry) => o.open
             /\ plast'.open = o.open
             /\ (plast'.raised = "none") <=> ~o.open
             /\ UNCHANGED <<now, failuresAllowedBeforeTrip, retryInterval,
                            circuitBreaker, policyShouldRetry, consecutiveFailures,
                            policyNextRetry>>]_vars

C12_Witness ==
  /\ plast.op = "throwIfTripped" /\ ~plast.open /\ plast.raised = "none"
  /\ circuitBreaker.isTripped /\ retryInterval > 0 /\ now >= policyNextRetry
  /\ policyShouldRetry = "false"

\* C13 (as claimed): when the policy is open throwIfTripped invokes the
\* registered onTerminatingRequest exactly once and then raises the trip
\* error; when it is not open it returns normally without invoking it.
C13_TerminatingThenTripError ==
  plast.op = "throwIfTripped"
    => IF plast.open
         THEN /\ plast.raised = "CircuitBreakerError"
              /\ plast.slot # "unset"
                   => plast.calls = <<"isCircuitBreakerOpen", "onTerminatingRequest">>
         ELSE plast.raised = "none" /\ plast.calls = <<"isCircuitBreakerOpen">>

\* C13 (amended): when the policy is open throwIfTripped invokes the
\* registered onTerminatingRequest exactly once, before anything is raised,
\* and then raises the trip error if the callback returned and the callback's
\* own error if it threw (no callback registered: the trip error, no
\* invocation); when it is not open it returns normally without invoking it.
C13_TerminatingBeforeRaise ==
  plast.op = "throwIfTripped"
    => IF plast.open
         THEN /\ plast.raised = IF plast.slot = "throws"
                                  THEN "CallbackError" ELSE "CircuitBreakerError"
              /\ plast.calls = IF plast.slot = "unset"
                                 THEN <<"isCircuitBreakerOpen">>
                                 ELSE <<"isCircuitBreakerOpen", "onTerminatingRequest">>
         ELSE plast.raised = "none" /\ plast.calls = <<"isCircuitBreakerOpen">>

C13_Witness ==
  /\ plast.op = "throwIfTripped" /\ plast.open /\ plast.slot = "returns"
  /\ plast.calls = <<"isCircuitBreakerOpen", "onTerminatingRequest">>
  /\ plast.raised = "CircuitBreakerError"
  /\ circuitBreaker.isTripped /\ now < policyNextRetry

\* C14 (as claimed): with retryInterval > 0, a throwIfTripped on a tripped
\* policy returns normally only when now >= _nextRetry; after a qualifying
\* notification at t that arrived in the probe window (tripped, _nextRetry
\* elapsed) throwIfTripped raises at every time < t + retryInterval; after a
\* non-qualifying notification the breaker is closed.
C14_ProbeWindowEnds ==
  retryInterval > 0
    => /\ (plast.op = "throwIfTripped" /\ circuitBreaker.isTripped
             /\ plast.raised = "none") => now >= policyNextRetry
       /\ (plast.op = "throwIfTripped" /\ phist.reopenedAt >= 0
             /\ now < phist.reopenedAt + retryInterval) => plast.raised # "none"
       /\ (plast.op = "notifyRequestFinished" /\ ~plast.reason)
            => ~circuitBreaker.isTripped

\* C14 (amended): as above, for a qualifying notification in the probe window
\* whose onRequestToOpen callback did not throw (one whose callback threw
\* never reaches tryToTripCircuitBreaker and leaves the window open).
C14_ProbeWindowEndsUnlessCallbackThrew ==
  retryInterval > 0
    => /\ (plast.op = "throwIfTripped" /\ circuitBreaker.isTripped
             /\ plast.raised = "none") => now >= policyNextRetry
       /\ (plast.op = "throwIfTripped" /\ phist.reopenedAt >= 0
             /\ ~phist.reopenRaised
             /\ now < phist.reopenedAt + retryInterval) => plast.raised # "none"
       /\ (plast.op = "throwIfTripped" /\ phist.reopenedAt >= 0
             /\ phist.reopenRaised /\ plast.raised = "none")
            => now >= policyNextRetry
       /\ (plast.op = "notifyRequestFinished" /\ ~plast.reason)
            => ~circuitBreaker.isTripped

C14_Witness ==
  /\ retryInterval > 0 /\ plast.op = "throwIfTripped"
  /\ phist.reopenedAt >= 0 /\ ~phist.reopenRaised
  /\ phist.reopenedAt < now /\ now < phist.reopenedAt + retryInterval
  /\ plast.raised = "CircuitBreakerError"

\* C15 (as claimed): half-open admits one trial call: at most one probe is
\* in flight at any time, and no execute is admitted on a tripped breaker
\* while a probe is in flight.
C15_SingleProbeInFlight ==
  /\ inflight.probe <= 1
  /\ (last.op = "execute" /\ last.admitted /\ last.probe) => inflight.probe = 0

\* C16: execute and executeAsync agree on calls that overlap no other call:
\* the gate admits or rejects both alike, with the same error, and a call
\* that settles with no other call in flight leaves isTripped, trippedAt,
\* _nextRetry, _shouldRetry and the strategy's counters as the bookkeeping of
\* the other method would from the same state, and raises the same value.
C16_ExecuteAsyncEquivalent ==
  [][/\ IsCall(last')
          => /\ last'.admitted
                  <=> AttemptToProceed(cb, now, nextRetry, shouldRetry) = "none"
             /\ ~last'.admitted
                  => last'.raised = AttemptToProceed(cb, now, nextRetry, shouldRetry)
     /\ (IsSettled(last') /\ InFlightTotal(inflight') = 0)
          => LET s == AfterAction(last'.thrown, last'.detects, last'.interval, now')
                 a == AfterAwaitedAction(last'.thrown, last'.detects,
                                         last'.interval, now')
                 after == [cb |-> cb', nextRetry |-> nextRetry',
                           shouldRetry |-> shouldRetry', errorCount |-> errorCount',
                           errorCountIntervalEnd |-> errorCountIntervalEnd',
                           raised |-> last'.raised, shouldTrip |-> last'.shouldTrip]
                 Visible(x) == [f \in DOMAIN after |-> x[f]]
             IN Visible(s) = after /\ Visible(a) = after]_vars

C16_Witness ==
  /\ last.op = "executeAsync.settled" /\ InFlightTotal(inflight) = 0
  /\ last.probe /\ last.thrown = "TestError" /\ last.shouldTrip = "true"
  /\ cb.isTripped /\ nextRetry = now + last.interval /\ last.interval > 0

\* C17 (as claimed): with jitter None and maxAttempts in 0..10 the result is
\* min(baseDelay * 2^(attempt-1), maxDelay) for the attempt the caller passed.
C17_NoJitterDelayOfPassedAttempt ==
  (backoff.called /\ ~backoff.threw /\ backoff.jitter = "None")
    => 2 * backoff.value
         = MathMin(backoff.baseDelay * Pow2(backoff.attempt) * Units,
                   2 * backoff.maxDelay * Units)

\* C17 (amended): with jitter None and maxAttempts in 0..10 the result is
\* min(baseDelay * 2^(a-1), maxDelay) where a = min(attempt, maxAttempts),
\* the attempt after the clamp; it is the claimed value when
\* attempt <= maxAttempts.
C17_NoJitterDelayOfClampedAttempt ==
  (backoff.called /\ ~backoff.threw /\ backoff.jitter = "None")
    => LET a == MathMin(backoff.attempt, backoff.maxAttempts) IN
       2 * backoff.value
         = MathMin(backoff.baseDelay * Pow2(a) * Units, 2 * backoff.maxDelay * Units)

C17_Witness ==
  /\ backoff.called /\ ~backoff.threw /\ backoff.jitter = "None"
  /\ backoff.attempt = 5 /\ backoff.maxAttempts = 3
  /\ backoff.baseDelay = 100 /\ backoff.maxDelay = 1000
  /\ backoff.value = 400 * Units

\* C18: calculateBackoff throws for every maxAttempts < 0 and every
\* maxAttempts > 10, whatever the other arguments, and returns a delay for
\* every maxAttempts in 0..10.
C18_MaxAttemptsRange ==
  backoff.called
    => (backoff.threw <=> (backoff.maxAttempts < 0 \/ backoff.maxAttempts > 10))

C18_Witness ==
  /\ backoff.called /\ backoff.threw /\ backoff.maxAttempts = -1
  /\ backoff.attempt = 1 /\ backoff.baseDelay = 100 /\ backoff.jitter = "Equal"

\* C19: for attempt > maxAttempts the result is the result for
\* attempt = maxAttempts with the other arguments and the random draw the
\* same; no result exceeds min(baseDelay * 2^(maxAttempts-1), maxDelay), nor
\* maxDelay.
C19_AttemptClamped ==
  (backoff.called /\ ~backoff.threw)
    => /\ backoff.attempt > backoff.maxAttempts
            => backoff.value
                 = CalculateBackoff(backoff.maxAttempts, backoff.maxAttempts,
                                    backoff.baseDelay, backoff.maxDelay,
                                    backoff.jitter, backoff.nextRandomValue).value
       /\ 2 * backoff.value
            <= MathMin(backoff.baseDelay * Pow2(backoff.maxAttempts) * Units,
                       2 * backoff.maxDelay * Units)
       /\ backoff.value <= backoff.maxDelay * Units

C19_Witness ==
  /\ backoff.called /\ ~backoff.threw
  /\ backoff.attempt = MaxAttempt /\ backoff.maxAttempts = 2
  /\ backoff.baseDelay = 1 /\ backoff.maxDelay = 3 /\ backoff.jitter = "None"
  /\ backoff.value = 2 * Units

\* C20 (as claimed): with d = min(baseDelay * 2^(attempt-1), maxDelay) and
\* the draw r, Full returns d * r and Equal returns d * (0.5 + 0.5 * r); Full
\* lies in [0, d) and Equal in [d/2, d).
C20_JitterOfPassedAttempt ==
  (backoff.called /\ ~backoff.threw)
    => LET d2 == MathMin(backoff.baseDelay * Pow2(backoff.attempt) * Units,
                         2 * backoff.maxDelay * Units)
           r == backoff.nextRandomValue
           v == backoff.value
       IN /\ backoff.jitter = "Full"
               => 2 * Units * v = d2 * r /\ 0 <= v /\ 2 * v < d2
          /\ backoff.jitter = "Equal"
               => 4 * Units * v = d2 * (Units + r) /\ d2 <= 4 * v /\ 2 * v < d2

\* C20 (amended): with d = min(baseDelay * 2^(a-1), maxDelay) for
\* a = min(attempt, maxAttempts) and the draw r, Full returns d * r and Equal
\* returns d * (0.5 + 0.5 * r); when d > 0 Full lies in [0, d) and Equal in
\* [d/2, d), and when d = 0 both return 0.
C20_JitterOfClampedAttempt ==
  (backoff.called /\ ~backoff.threw)
    => LET a == MathMin(backoff.attempt, backoff.maxAttempts)
           d2 == MathMin(backoff.baseDelay * Pow2(a) * Units,
                         2 * backoff.maxDelay * Units)
           r == backoff.nextRandomValue
           v == backoff.value
       IN /\ backoff.jitter = "Full"
               => /\ 2 * Units * v = d2 * r
                  /\ IF d2 > 0 THEN 0 <= v /\ 2 * v < d2 ELSE v = 0
          /\ backoff.jitter = "Equal"
               => /\ 4 * Units * v = d2 * (Units + r)
                  /\ IF d2 > 0 THEN d2 <= 4 * v /\ 2 * v < d2 ELSE v = 0

C20_Witness ==
  /\ backoff.called /\ ~backoff.threw /\ backoff.jitter = "Full"
  /\ backoff.baseDelay = 100 /\ backoff.maxDelay = 1000
  /\ backoff.attempt = 5 /\ backoff.maxAttempts = 5
  /\ backoff.nextRandomValue = Units \div 2
  /\ backoff.value = 500 * Units

\* C21: _shouldRetry is not true on a new wrapper, is true after every
\* execute / executeAsync that passed the gate, whatever its action did, and
\* once true stays true in every step, reset() included; a call stopped at
\* the gate leaves it as it was.
C21_ShouldRetrySticky ==
  [][/\ last.op = "none" => ~Truthy(shouldRetry)
     /\ IsSettled(last') => shouldRetry' = "true"
     /\ shouldRetry = "true" => shouldRetry' = "true"
     /\ (IsCall(last') /\ ~last'.admitted) => shouldRetry' = shouldRetry
     /\ ~IsSettled(last') => shouldRetry' = shouldRetry]_vars

C21_Witness ==
  /\ last.op = "reset" /\ last.ret = "true" /\ IsExecutionBreaker
  /\ shouldRetry = "true" /\ ~cb.isTripped /\ InFlightTotal(inflight) = 0

\* C22 (as claimed): after the wrapper's reset(), called explicitly or by a
\* call whose action completed normally, _nextRetry is the minimum date and
\* _shouldRetry is false.
C22_ResetRestoresBoth ==
  (IsExecutionBreaker
     /\ (last.op = "reset" \/ (IsSettled(last) /\ last.thrown = "none")))
    => nextRetry = MinDate /\ ~Truthy(shouldRetry)

\* C22 (amended): the wrapper's reset(), called explicitly or by a call whose
\* action completed normally, untrips the breaker and sets _nextRetry to the
\* minimum date; it does not write _shouldRetry, which keeps its value after
\* an explicit reset() and is true after the call.
C22_ResetRestoresNextRetryOnly ==
  [][(IsExecutionBreaker
        /\ (last'.op = "reset" \/ (IsSettled(last') /\ last'.thrown = "none")))
       => /\ nextRetry' = MinDate
          /\ cb' = NewBreaker
          /\ last'.op = "reset" => shouldRetry' = shouldRetry
          /\ IsSettled(last') => shouldRetry' = "true"]_vars

C22_Witness ==
  /\ last.op = "execute" /\ last.admitted /\ last.probe /\ last.thrown = "none"
  /\ shouldRetry = "true" /\ nextRetry = MinDate /\ cb = NewBreaker

C24_IgnoredFailureFrame ==
  [][(IsSettled(last') /\ last'.thrown # "none" /\ last'.shouldTrip = "false")
       => /\ cb' = cb /\ nextRetry' = nextRetry
          /\ shouldRetry' = "true"
          /\ last'.raised = last'.thrown
          /\ (cb.isTripped /\ now' >= nextRetry)
               => \A t \in now'..MaxTime :
                    AttemptToProceed(cb', t, nextRetry', shouldRetry') = "none"]_vars

C24_Witness ==
  /\ IsSettled(last) /\ last.thrown = "TestError" /\ last.shouldTrip = "false"
  /\ last.probe /\ cb.isTripped /\ nextRetry > MinDate /\ now >= nextRetry

IsThresholdFailure(l) ==
  kind = "ThresholdExecutionCircuitBreaker" /\ IsSettled(l) /\ l.thrown # "none"

\* C25: threshold strategy, failure at t that the detector accepts: if
\* t > _errorCountIntervalEnd then afterwards _errorCount = 1 and
\* _errorCountIntervalEnd = t + errorInterval; otherwise _errorCount is one
\* more and _errorCountIntervalEnd unchanged; the count compared with the
\* threshold is a non-negative integer, the first failure of a new breaker
\* included, and shouldTrip is count > threshold.
C25_WindowUpdate ==
  [][(IsThresholdFailure(last') /\ last'.thrown = "TestError" /\ last'.detects)
       => /\ IF now' > errorCountIntervalEnd
               THEN /\ errorCount' = Num(1)
                    /\ errorCountIntervalEnd' = now' + errorIntervalGetter
               ELSE /\ errorCount.k = "number"
                    /\ errorCount' = Num(errorCount.v + 1)
                    /\ errorCountIntervalEnd' = errorCountIntervalEnd
          /\ errorCount'.k = "number" /\ errorCount'.v >= 0
          /\ (last'.shouldTrip = "true") <=> (errorCount'.v > errorCountGetter)]_vars

C25_Witness ==
  /\ IsThresholdFailure(last) /\ last.detects
  /\ errorCount = Num(2) /\ now = errorCountIntervalEnd
  /\ errorCountGetter = 2 /\ last.shouldTrip = "false"

\* C26: threshold strategy, failure that the detector rejects: shouldTrip
\* returns false and _errorCount and _errorCountIntervalEnd are unchanged,
\* also when now > _errorCountIntervalEnd.
C26_RejectedFailureFrame ==
  [][(IsThresholdFailure(last') /\ last'.thrown = "TestError" /\ ~last'.detects)
       => /\ last'.shouldTrip = "false"
          /\ errorCount' = errorCount
          /\ errorCountIntervalEnd' = errorCountIntervalEnd
          /\ cb' = cb /\ nextRetry' = nextRetry]_vars

C26_Witness ==
  /\ IsThresholdFailure(last) /\ last.thrown = "TestError" /\ ~last.detects
  /\ last.shouldTrip = "false"
  /\ errorCount = Num(1) /\ now > errorCountIntervalEnd

\* C27: threshold strategy, shouldTrip(null) or shouldTrip(undefined): it
\* throws before the detector is consulted and _errorCount,
\* _errorCountIntervalEnd, isTripped, trippedAt and _nextRetry are unchanged.
C27_AbsentErrorThrows ==
  [][(IsThresholdFailure(last') /\ last'.thrown \in {"null", "undefined"})
       => LET s == ThresholdShouldTrip(last'.thrown, last'.detects, now',
                                       errorCount, errorCountIntervalEnd)
          IN /\ s.threw /\ ~s.consulted
             /\ last'.shouldTrip = "threw" /\ last'.raised = "ArgumentError"
             /\ errorCount' = errorCount
             /\ errorCountIntervalEnd' = errorCountIntervalEnd
             /\ cb' = cb /\ nextRetry' = nextRetry]_vars

C27_Witness ==
  /\ IsThresholdFailure(last) /\ last.thrown = "undefined"
  /\ last.shouldTrip = "threw" /\ last.raised = "ArgumentError"
  /\ errorCount = Num(1) /\ now > errorCountIntervalEnd /\ ~cb.isTripped

IsNotification(l) == l.op = "notifyRequestFinished"

\* C28: after every notifyRequestFinished, qualifying or not, also when
\* onRequestToOpen threw, onNotified has run exactly once, as the last
\* method of the call, and _shouldRetry is false.
C28_AlwaysNotified ==
  IsNotification(plast)
    => /\ Len(SelectSeq(plast.calls, LAMBDA c : c = "onNotified")) = 1
       /\ plast.calls[Len(plast.calls)] = "onNotified"
       /\ policyShouldRetry = "false"

C28_Witness ==
  /\ IsNotification(plast) /\ plast.reason /\ plast.raised = "CallbackError"
  /\ plast.calls = <<"isReasonForTrip", "onRequestToOpen", "onNotified">>
  /\ policyShouldRetry = "false"

\* C29 (as claimed): when isReasonForTrip answers true the call invokes the
\* registered onRequestToOpen and then tryToTripCircuitBreaker, never
\* onSuccessfulRequest; when it answers false it invokes onSuccessfulRequest
\* and neither of the other two.
C29_OneBranch ==
  IsNotification(plast)
    => plast.calls
         = IF ~plast.reason
             THEN <<"isReasonForTrip", "onSuccessfulRequest", "onNotified">>
           ELSE IF plast.slot = "unset"
             THEN <<"isReasonForTrip", "tryToTripCircuitBreaker", "onNotified">>
           ELSE <<"isReasonForTrip", "onRequestToOpen", "tryToTripCircuitBreaker",
                  "onNotified">>

\* C29 (amended): when isReasonForTrip answers true the call invokes the
\* registered onRequestToOpen and then, unless that callback threw,
\* tryToTripCircuitBreaker, never onSuccessfulRequest; a callback that throws
\* ends the branch, tryToTripCircuitBreaker is not invoked and the policy's
\* counter, breaker and _nextRetry are left alone. When isReasonForTrip
\* answers false the call invokes onSuccessfulRequest and neither of the
\* other two.
C29_OneBranchUnlessCallbackThrew ==
  [][IsNotification(plast')
       => /\ plast'.calls
               = IF ~plast'.reason
                   THEN <<"isReasonForTrip", "onSuccessfulRequest", "onNotified">>
                 ELSE IF plast'.slot = "unset"
                   THEN <<"isReasonForTrip", "tryToTripCircuitBreaker", "onNotified">>
                 ELSE IF plast'.slot = "throws"
                   THEN <<"isReasonForTrip", "onRequestToOpen", "onNotified">>
                 ELSE <<"isReasonForTrip", "onRequestToOpen",
                        "tryToTripCircuitBreaker", "onNotified">>
          /\ (plast'.reason /\ plast'.slot = "throws")
               => /\ plast'.raised = "CallbackError"
                  /\ UNCHANGED <<consecutiveFailures, circuitBreaker,
                                 policyNextRetry>>]_vars

C29_Witness ==
  /\ IsNotification(plast) /\ plast.reason /\ plast.slot = "returns"
  /\ plast.calls = <<"isReasonForTrip", "onRequestToOpen",
                     "tryToTripCircuitBreaker", "onNotified">>
  /\ plast.ret = "true" /\ circuitBreaker.isTripped

\* C30 (as claimed): _nextRetry changes only in a qualifying notification
\* whose tryToTripCircuitBreaker returns true, which is when
\* _consecutiveFailures has exceeded failuresAllowedBeforeTrip, and is then
\* now + retryInterval; a qualifying notification below the allowance, a
\* non-qualifying one and throwIfTripped leave it unchanged.
C30_NextRetryOnlyOnTrip ==
  [][/\ policyNextRetry' # policyNextRetry
          => IsNotification(plast') /\ plast'.reason /\ plast'.ret = "true"
     /\ (IsNotification(plast') /\ plast'.ret = "true")
          => /\ policyNextRetry' = now + retryInterval
             /\ JsGt(consecutiveFailures', failuresAllowedBeforeTrip)
     /\ (IsNotification(plast') /\ plast'.reason /\ plast'.raised = "none")
          => (plast'.ret = "true"
                <=> JsGt(consecutiveFailures', failuresAllowedBeforeTrip))
     /\ (IsNotification(plast') /\ plast'.ret # "true")
          => policyNextRetry' = policyNextRetry
     /\ plast'.op = "throwIfTripped" => policyNextRetry' = policyNextRetry]_vars

\* C33: in every state an execution wrapper reaches through trip(), reset(),
\* execute and executeAsync, in any interleaving of the calls in flight, an
\* untripped breaker has _nextRetry at its initial minimum value.
C33_ClosedMeansInitialNextRetry ==
  (IsExecutionBreaker /\ ~cb.isTripped) => nextRetry = MinDate

\* A threshold wrapper tripped by its second failure, which wrote _nextRetry,
\* and closed again by reset().
C33_Witness ==
  /\ kind = "ThresholdExecutionCircuitBreaker"
  /\ last.op = "reset" /\ last.ret = "true"
  /\ errorCount = Num(2)
  /\ ~cb.isTripped /\ nextRetry = MinDate

\* C34: a wrapper tripped by trip() before any call passed the gate
\* (_shouldRetry still undefined, no call in flight) rejects every execute
\* and executeAsync at every clock value, and stays in that state until
\* reset() is called.
C34_DirectTripStaysShut ==
  [][(/\ IsExecutionBreaker /\ cb.isTripped
      /\ shouldRetry = "undefined" /\ InFlightTotal(inflight) = 0)
     => /\ IsCall(last') => (/\ ~last'.admitted
                             /\ last'.raised = "CircuitBreakerError")
        /\ \/ last'.op = "reset"
           \/ (/\ cb'.isTripped /\ shouldRetry' = "undefined"
               /\ InFlightTotal(inflight') = 0)]_vars

\* A call rejected two ticks after a direct trip(), with _nextRetry long past.
C34_Witness ==
  /\ IsCall(last) /\ ~last.admitted /\ last.raised = "CircuitBreakerError"
  /\ shouldRetry = "undefined" /\ InFlightTotal(inflight) = 0
  /\ cb.isTripped /\ cb.trippedAt = Num(1) /\ now = MaxTime
  /\ nextRetry = MinDate

\* C35: trip() leaves _nextRetry as it was, so on a wrapper that completed
\* an execution (_shouldRetry true) and whose _nextRetry has elapsed, the
\* execute that follows trip() passes the gate and runs its action while
\* isTripped is true.
C35_DirectTripAdmitsNextCall ==
  [][/\ last'.op = "trip" => nextRetry' = nextRetry
     /\ (/\ last.op = "trip" /\ cb.isTripped
         /\ shouldRetry = "true" /\ now >= nextRetry
         /\ IsCall(last'))
        => (last'.admitted /\ last'.probe)]_vars

\* An execute admitted on a breaker that trip() opened: the failure was not
\* counted, so the breaker is still tripped and _nextRetry was never written.
C35_Witness ==
  /\ last.op = "execute" /\ last.admitted /\ last.probe
  /\ last.shouldTrip = "false"
  /\ cb.isTripped /\ nextRetry = MinDate /\ shouldRetry = "true"

\* C37: threshold strategy: a successful execution and reset() leave
\* _errorCount and _errorCountIntervalEnd as they were, so on a breaker that
\* is closed again with its count above the threshold, one more failure the
\* detector accepts inside the same window trips it at once.
C37_CountSurvivesClosing ==
  [][/\ (last'.op = "reset" \/ (IsSettled(last') /\ last'.thrown = "none"))
          => UNCHANGED <<errorCount, errorCountIntervalEnd>>
     /\ (/\ IsThresholdFailure(last') /\ last'.thrown = "TestError" /\ last'.detects
         /\ ~cb.isTripped /\ JsGt(errorCount, errorCountGetter)
         /\ now' <= errorCountIntervalEnd)
          => (/\ last'.shouldTrip = "true"
              /\ cb'.isTripped /\ cb'.trippedAt = Num(now'))]_vars

\* A failure admitted on the closed breaker that left the count two above
\* the threshold: the count was above it before, and the breaker trips anew.
C37_Witness ==
  /\ IsThresholdFailure(last) /\ last.detects /\ ~last.probe
  /\ last.shouldTrip = "true"
  /\ errorCount.k = "number" /\ errorCount.v >= errorCountGetter + 2
  /\ cb.isTripped /\ cb.trippedAt = Num(now)

\* C38: in every state of a DefaultCircuitBreakerPolicy _shouldRetry is not
\* true, so the policy is open exactly when the internal breaker is tripped
\* and now < _nextRetry; throwIfTripped returns normally in exactly the other
\* states, and once _nextRetry has elapsed each of any number of consecutive
\* throwIfTripped calls returns normally.
C38_PolicyNeverHalfOpen ==
  [][/\ policyShouldRetry' # "true"
     /\ IsCircuitBreakerOpen(now).open
          <=> (circuitBreaker.isTripped /\ now < policyNextRetry)
     /\ plast'.op = "throwIfTripped"
          => /\ (plast'.raised = "none")
                  <=> ~(circuitBreaker.isTripped /\ now < policyNextRetry)
             /\ (plast.op = "throwIfTripped" /\ plast.raised = "none")
                  => plast'.raised = "none"]_vars

\* throwIfTripped returning normally on a tripped policy whose retry
\* interval ran out a tick ago, with a terminating callback registered.
C38_Witness ==
  /\ plast.op = "throwIfTripped" /\ plast.raised = "none" /\ plast.slot = "throws"
  /\ circuitBreaker.isTripped /\ retryInterval > 0 /\ now > policyNextRetry
  /\ policyShouldRetry = "false"

C39_DisposedStaysQuiet ==
  [][/\ sentinel'.isDisposed => intervals' = {}
     /\ sentinel.isDisposed => sentinel'.isHealthy = sentinel.isHealthy
     /\ (slast'.op = "dispose" /\ ~slast'.disposing)
          => UNCHANGED <<sentinel, intervals, timersCreated>>]_vars

Busy(c) == {i \in Calls : c[i].pc \in SyncPcs}

C32_LateSuccessCloses ==
  [][\A i \in Calls :
       (/\ calls[i].pc = "reset" /\ calls'[i].pc = "idle"
        /\ ~calls[i].probe /\ cb.isTripped /\ now < nextRetry)
         => /\ cb' = NewBreaker /\ nextRetry' = MinDate
            /\ AttemptToProceed(cb', now', nextRetry', shouldRetry') = "none"]_vars

\* The late call has returned; the call that tripped the breaker raised its
\* error, and the retry time it wrote is gone.
C32_Witness ==
  \E i, j \in Calls :
    /\ i # j
    /\ calls[i].pc = "idle" /\ calls[i].overrode /\ calls[i].raised = "none"
    /\ calls[j].pc = "idle" /\ calls[j].raised = "TestError"
    /\ running = 0 /\ cb = NewBreaker /\ nextRetry = MinDate
====
